---- MODULE Spec2Model ----
(***************************************************************************)
(* The combat engine of backend.py: play_match -> play_round -> play_turn, *)
(* with the damage model (calculate_damage_taken, calculate_miss_chance).  *)
(*                                                                         *)
(* Numbers.  The engine computes with Python floats.  The model computes   *)
(* with exact integers: damage amounts, armor, magic_resistance and        *)
(* special_trigger_chance are whole numbers, and every quantity the code   *)
(* obtains by a division (current_hp, health deltas, mitigated amounts,    *)
(* damage_mitigated, probabilities) is held in hundredths, so that         *)
(* x * armor / 100 is the integer x * armor.                               *)
(***************************************************************************)
EXTENDS Integers, Sequences, FiniteSets, TLC

VARIABLES
    \* play_match (backend.py 161-207)
    mpc,                       \* position in play_match
    is_your_turn_first,
    your_wins,
    opponent_wins,
    round,
    play_by_play_description,
    match_result,              \* what play_match returned
    \* play_round (backend.py 118-157)
    rpc,                       \* position in play_round
    your_team,
    opponent_team,
    your_index,
    opponent_index,
    is_your_turn,
    battle_log,
    round_result,              \* what play_round returned
    \* play_turn (backend.py 68-116)
    tpc,                       \* position in play_turn
    is_attack_special,
    is_damage_missed,
    description,
    pre,                       \* the two characters and the RNG as play_turn was entered
    \* RngEngine
    rng_calls,                 \* rolls consumed so far
    \* direct calls of calculate_damage_taken
    dmg_in,
    stats_in,
    dmg_out,
    \* direct calls of calculate_miss_chance
    miss_out

match_vars == <<mpc, is_your_turn_first, your_wins, opponent_wins, round,
                play_by_play_description, match_result>>
round_vars == <<rpc, your_team, opponent_team, your_index, opponent_index,
                is_your_turn, battle_log, round_result>>
turn_vars == <<tpc, is_attack_special, is_damage_missed, description, pre>>
calc_vars == <<dmg_in, stats_in, dmg_out, miss_out>>
vars == <<match_vars, round_vars, turn_vars, rng_calls, calc_vars>>

----------------------------------------------------------------------------
\* Program constants.

N_ROUNDS == 5
N_WINS == 3
\* the divisor of the mitigation percentages; hundredths are the model's unit
PERCENT == 100
\* the divisor of calculate_miss_chance
MISS_DIVISOR == 10

\* Bounds of the model.
MaxTurns == 6        \* turns of one round that are explored
MaxDamage == 3       \* direct calls: damage amounts are multiples of 10 up to 10 * MaxDamage
MaxCalls == 2        \* direct calls of calculate_damage_taken on one input

----------------------------------------------------------------------------
\* utils: Stats, Damage, Attack, DamageStats, BaseCharacter.

None == [none |-> TRUE]

Stats(hp, armor, mr, stc) ==
    [current_hp |-> hp, armor |-> armor, magic_resistance |-> mr,
     special_trigger_chance |-> stc]

\* Stats.add_stat_changes: a new Stats, every field summed
add_stat_changes(stats, delta) ==
    [current_hp |-> stats.current_hp + delta.current_hp,
     armor |-> stats.armor + delta.armor,
     magic_resistance |-> stats.magic_resistance + delta.magic_resistance,
     special_trigger_chance |-> stats.special_trigger_chance + delta.special_trigger_chance]

Damage(physical, magic) == [physical |-> physical, magic |-> magic]

Attack(damage, updates) == [damage |-> damage, stat_updates_to_self |-> updates]

FreshDamageStats ==
    [damage_dealt |-> 0, damage_taken |-> 0, damage_mitigated |-> 0, kills |-> 0]

BaseCharacter(name, stats, basic, special) ==
    [name |-> name, effective_stats |-> stats, damage_stats |-> FreshDamageStats,
     basic_attack |-> basic, special_attack |-> special]

\* RngEngine.rng(probability): the outcomes a roll with this probability
\* (a percentage, in hundredths) can have
Rng(probability) ==
    {b \in BOOLEAN : (b => probability > 0) /\ (~b => probability < 100 * PERCENT)}

----------------------------------------------------------------------------
\* The damage model.

\* calculate_damage_taken without lines 47-48
DamageTakenNoMagic(damage, character_stats) ==
    IF character_stats = None
    THEN [raised |-> TRUE]
    ELSE LET mitigated_physical == damage.physical * character_stats.armor
             mitigated_magic == damage.magic * character_stats.magic_resistance
             hp_lost == IF damage.physical # 0
                        THEN damage.physical * PERCENT - mitigated_physical
                        ELSE 0
         IN  [raised |-> FALSE,
              value |-> <<-hp_lost, mitigated_physical + mitigated_magic>>]

\* calculate_damage_taken with line 50 returning hp_lost for -hp_lost
DamageTakenUnsigned(damage, character_stats) ==
    IF character_stats = None
    THEN [raised |-> TRUE]
    ELSE LET mitigated_physical == damage.physical * character_stats.armor
             mitigated_magic == damage.magic * character_stats.magic_resistance
             lost_physical == IF damage.physical # 0
                              THEN damage.physical * PERCENT - mitigated_physical
                              ELSE 0
             lost_magic == IF damage.magic # 0
                           THEN damage.magic * PERCENT - mitigated_magic
                           ELSE 0
         IN  [raised |-> FALSE,
              value |-> <<lost_physical + lost_magic, mitigated_physical + mitigated_magic>>]

\* calculate_damage_taken: (health delta, mitigated amount), both in hundredths
calculate_damage_taken(damage, character_stats) ==
    IF character_stats = None
    THEN [raised |-> TRUE]
    ELSE LET mitigated_physical == damage.physical * character_stats.armor
             mitigated_magic == damage.magic * character_stats.magic_resistance
             lost_physical == IF damage.physical # 0
                              THEN damage.physical * PERCENT - mitigated_physical
                              ELSE 0
             lost_magic == IF damage.magic # 0
                           THEN damage.magic * PERCENT - mitigated_magic
                           ELSE 0
             hp_lost == 0 + lost_physical + lost_magic
         IN  [raised |-> FALSE,
              value |-> <<-hp_lost, mitigated_physical + mitigated_magic>>]

\* calculate_miss_chance with  >=  at line 62
MissChanceMagicOnTie(damage, character_stats) ==
    IF damage.magic >= damage.physical
    THEN character_stats.magic_resistance * (PERCENT \div MISS_DIVISOR)
    ELSE character_stats.armor * (PERCENT \div MISS_DIVISOR)

\* calculate_miss_chance: a percentage, in hundredths
calculate_miss_chance(damage, character_stats) ==
    IF damage.magic > damage.physical
    THEN character_stats.magic_resistance * (PERCENT \div MISS_DIVISOR)
    ELSE character_stats.armor * (PERCENT \div MISS_DIVISOR)

----------------------------------------------------------------------------
\* The data the loader can deliver (game.read_data): ordered teams of
\* characters that arrive alive, with fresh damage_stats.

\* 15 hp, no mitigation; hits for 20 physical; never rolls its special
Glass ==
    BaseCharacter("Glass", Stats(15 * PERCENT, 0, 0, 0),
                  Attack(Damage(20, 0), None), Attack(Damage(20, 0), None))

\* 30 hp, mitigates; its special is magic and raises its own armor
Tank ==
    BaseCharacter("Tank", Stats(30 * PERCENT, 50, 20, 50),
                  Attack(Damage(10, 0), None),
                  Attack(Damage(0, 20), Stats(0, 10, 0, 0)))

\* 10 hp; its basic attack is half physical, half magic; its special costs
\* it 10 hp of its own
Recoil ==
    BaseCharacter("Recoil", Stats(10 * PERCENT, 20, 80, 50),
                  Attack(Damage(10, 10), None),
                  Attack(Damage(30, 0), Stats(-10 * PERCENT, 0, 0, 0)))

\* 10 hp, no mitigation; always rolls its special, which hits for 5 physical
\* and gives it 5 hp
Medic ==
    BaseCharacter("Medic", Stats(10 * PERCENT, 0, 0, 100),
                  Attack(Damage(5, 0), None),
                  Attack(Damage(5, 0), Stats(5 * PERCENT, 0, 0, 0)))

Teams ==
    { <<>>, <<Glass>>, <<Recoil>>, <<Tank>>, <<Glass, Glass>>, <<Recoil, Glass>>,
      <<Glass, Tank>>, <<Tank, Recoil>>, <<Recoil, Recoil>>, <<Medic>> }

\* game.read_data(path): the team an assignment file holds
read_data == Teams

----------------------------------------------------------------------------
\* play_turn (backend.py 68-116).  Its two arguments are references to the
\* characters at the front of the two teams (backend.py 146-148); a direct
\* call holds each argument in a one-element list.

YourCharacter == your_team[your_index + 1]
OpponentCharacter == opponent_team[opponent_index + 1]

attacking_char == IF is_your_turn THEN YourCharacter ELSE OpponentCharacter
defending_char == IF is_your_turn THEN OpponentCharacter ELSE YourCharacter

\* the attack chosen by the special-trigger roll (line 91)
ChosenAttack(attacker, special) ==
    IF special THEN attacker.special_attack ELSE attacker.basic_attack

\* the two characters written back, each to its own team
StoreCharacters(attacker, defender) ==
    LET yours == IF is_your_turn THEN attacker ELSE defender
        theirs == IF is_your_turn THEN defender ELSE attacker
    IN  /\ your_team' = [your_team EXCEPT ![your_index + 1] = yours]
        /\ opponent_team' = [opponent_team EXCEPT ![opponent_index + 1] = theirs]

\* line 83 with the check of your_character alone
OnlyYourDead(your_character, opponent_character) ==
    your_character.effective_stats.current_hp <= 0

\* line 83: the precondition of play_turn
AnyDead(your_character, opponent_character) ==
    \/ your_character.effective_stats.current_hp <= 0
    \/ opponent_character.effective_stats.current_hp <= 0

\* lines 83-84
TurnCheck ==
    /\ tpc = "check"
    /\ tpc' = IF AnyDead(YourCharacter, OpponentCharacter) THEN "raised" ELSE "special"
    /\ UNCHANGED <<match_vars, round_vars, is_attack_special, is_damage_missed,
                   description, pre, rng_calls, calc_vars>>

\* lines 86-91: the special-trigger roll
TurnSpecial ==
    /\ tpc = "special"
    /\ \E outcome \in Rng(attacking_char.effective_stats.special_trigger_chance * PERCENT) :
           is_attack_special' = outcome
    /\ rng_calls' = rng_calls + 1
    /\ tpc' = "self"
    /\ UNCHANGED <<match_vars, round_vars, is_damage_missed, description, pre, calc_vars>>

\* lines 93-94 with the Stats that add_stat_changes returns not assigned
SelfNotStored(attacker, attack) == attacker

\* lines 93-94: the attacker after the attack's updates to itself
SelfUpdated(attacker, attack) ==
    IF attack.stat_updates_to_self # None
    THEN [attacker EXCEPT !.effective_stats =
              add_stat_changes(attacker.effective_stats, attack.stat_updates_to_self)]
    ELSE attacker

\* lines 93-94
TurnSelf ==
    /\ tpc = "self"
    /\ StoreCharacters(SelfUpdated(attacking_char,
                                   ChosenAttack(attacking_char, is_attack_special)),
                       defending_char)
    /\ tpc' = "miss"
    /\ UNCHANGED <<match_vars, rpc, your_index, opponent_index, is_your_turn, battle_log,
                   round_result, is_attack_special, is_damage_missed, description, pre,
                   rng_calls, calc_vars>>

\* lines 96-97: the miss roll
TurnMiss ==
    /\ tpc = "miss"
    /\ \E outcome \in Rng(calculate_miss_chance(
                              ChosenAttack(attacking_char, is_attack_special).damage,
                              defending_char.effective_stats)) :
           is_damage_missed' = outcome
    /\ rng_calls' = rng_calls + 1
    /\ tpc' = "resolve"
    /\ UNCHANGED <<match_vars, round_vars, is_attack_special, description, pre, calc_vars>>

\* line 100 with the counters of lines 106-108 run before the miss is looked at
MissedCounted(attacker, defender) ==
    LET total_damage == attacker.basic_attack.damage.physical
                            + attacker.basic_attack.damage.magic
    IN  [attacker |-> [attacker EXCEPT !.damage_stats.damage_dealt = @ + total_damage],
         defender |-> [defender EXCEPT !.damage_stats.damage_taken = @ + total_damage],
         description |-> [kind |-> "missed", attacker |-> attacker.name,
                          defender |-> defender.name, total_damage |-> 0,
                          fainted |-> FALSE]]

\* line 100: a miss; both characters as they were, and the narration
Missed(attacker, defender) ==
    [attacker |-> attacker, defender |-> defender,
     description |-> [kind |-> "missed", attacker |-> attacker.name,
                      defender |-> defender.name, total_damage |-> 0,
                      fainted |-> FALSE]]

\* lines 102-114 with current_hp clamped at zero
HitClamped(attacker, defender, attack) ==
    LET taken == calculate_damage_taken(attack.damage, defender.effective_stats).value
        summed == add_stat_changes(defender.effective_stats, Stats(taken[1], 0, 0, 0))
        new_stats == [summed EXCEPT !.current_hp = IF @ < 0 THEN 0 ELSE @]
        total_damage == attack.damage.physical + attack.damage.magic
        has_fainted == new_stats.current_hp <= 0
    IN  [attacker |->
             [attacker EXCEPT
                 !.damage_stats.damage_dealt = @ + total_damage,
                 !.damage_stats.kills = IF has_fainted THEN @ + 1 ELSE @],
         defender |->
             [defender EXCEPT
                 !.effective_stats = new_stats,
                 !.damage_stats.damage_mitigated = @ + taken[2],
                 !.damage_stats.damage_taken = @ + total_damage],
         description |-> [kind |-> "hit", attacker |-> attacker.name,
                          defender |-> defender.name, total_damage |-> total_damage,
                          fainted |-> has_fainted]]

\* lines 102-114 with the counters of lines 107-108 fed the health lost
HitNet(attacker, defender, attack) ==
    LET taken == calculate_damage_taken(attack.damage, defender.effective_stats).value
        new_stats == add_stat_changes(defender.effective_stats, Stats(taken[1], 0, 0, 0))
        total_damage == (0 - taken[1]) \div PERCENT
        has_fainted == new_stats.current_hp <= 0
    IN  [attacker |->
             [attacker EXCEPT
                 !.damage_stats.damage_dealt = @ + total_damage,
                 !.damage_stats.kills = IF has_fainted THEN @ + 1 ELSE @],
         defender |->
             [defender EXCEPT
                 !.effective_stats = new_stats,
                 !.damage_stats.damage_mitigated = @ + taken[2],
                 !.damage_stats.damage_taken = @ + total_damage],
         description |-> [kind |-> "hit", attacker |-> attacker.name,
                          defender |-> defender.name, total_damage |-> total_damage,
                          fainted |-> has_fainted]]

\* lines 102-114 with line 108 adding the health lost, not total_damage
HitTakenNet(attacker, defender, attack) ==
    LET taken == calculate_damage_taken(attack.damage, defender.effective_stats).value
        new_stats == add_stat_changes(defender.effective_stats, Stats(taken[1], 0, 0, 0))
        total_damage == attack.damage.physical + attack.damage.magic
        has_fainted == new_stats.current_hp <= 0
    IN  [attacker |->
             [attacker EXCEPT
                 !.damage_stats.damage_dealt = @ + total_damage,
                 !.damage_stats.kills = IF has_fainted THEN @ + 1 ELSE @],
         defender |->
             [defender EXCEPT
                 !.effective_stats = new_stats,
                 !.damage_stats.damage_mitigated = @ + taken[2],
                 !.damage_stats.damage_taken = @ + (0 - taken[1]) \div PERCENT],
         description |-> [kind |-> "hit", attacker |-> attacker.name,
                          defender |-> defender.name, total_damage |-> total_damage,
                          fainted |-> has_fainted]]

\* lines 102-114: a hit; both characters after it, and the narration
Hit(attacker, defender, attack) ==
    LET taken == calculate_damage_taken(attack.damage, defender.effective_stats).value
        damage_taken == taken[1]
        mitigated_damage == taken[2]
        new_stats == add_stat_changes(defender.effective_stats,
                                      Stats(damage_taken, 0, 0, 0))
        total_damage == attack.damage.physical + attack.damage.magic
        has_fainted == new_stats.current_hp <= 0
    IN  [attacker |->
             [attacker EXCEPT
                 !.damage_stats.damage_dealt = @ + total_damage,
                 !.damage_stats.kills = IF has_fainted THEN @ + 1 ELSE @],
         defender |->
             [defender EXCEPT
                 !.effective_stats = new_stats,
                 !.damage_stats.damage_mitigated = @ + mitigated_damage,
                 !.damage_stats.damage_taken = @ + total_damage],
         description |-> [kind |-> "hit", attacker |-> attacker.name,
                          defender |-> defender.name, total_damage |-> total_damage,
                          fainted |-> has_fainted]]

\* lines 99-116
TurnResolve ==
    /\ tpc = "resolve"
    /\ LET outcome == IF is_damage_missed
                      THEN Missed(attacking_char, defending_char)
                      ELSE Hit(attacking_char, defending_char,
                               ChosenAttack(attacking_char, is_attack_special))
       IN  /\ StoreCharacters(outcome.attacker, outcome.defender)
           /\ description' = outcome.description
    /\ tpc' = "ret"
    /\ UNCHANGED <<match_vars, rpc, your_index, opponent_index, is_your_turn, battle_log,
                   round_result, is_attack_special, is_damage_missed, pre, rng_calls,
                   calc_vars>>

\* play_turn as it is entered: the arguments and the RNG at that moment
Entered(your_character, opponent_character) ==
    [your |-> your_character, opponent |-> opponent_character, rng_calls |-> rng_calls]

----------------------------------------------------------------------------
\* play_round (backend.py 118-157).

\* lines 136-143
RoundLoad ==
    /\ rpc = "load"
    /\ \E yours \in read_data, theirs \in read_data :
           /\ your_team' = yours
           /\ opponent_team' = theirs
    /\ your_index' = 0
    /\ opponent_index' = 0
    /\ is_your_turn' = is_your_turn_first
    /\ battle_log' = <<>>
    /\ rpc' = "loop"
    /\ UNCHANGED <<match_vars, round_result, turn_vars, rng_calls, calc_vars>>

\* line 145: the loop condition
InBounds(your_i, opponent_i) ==
    your_i < Len(your_team) /\ opponent_i < Len(opponent_team)

\* lines 145-148: the loop goes on and calls play_turn
RoundCallTurn ==
    /\ rpc = "loop"
    /\ InBounds(your_index, opponent_index)
    /\ Len(battle_log) < MaxTurns
    /\ rpc' = "in_turn"
    /\ tpc' = "check"
    /\ pre' = Entered(YourCharacter, OpponentCharacter)
    /\ UNCHANGED <<match_vars, your_team, opponent_team, your_index, opponent_index,
                   is_your_turn, battle_log, round_result, is_attack_special,
                   is_damage_missed, description, rng_calls, calc_vars>>

\* lines 150-153 with the test  current_hp < 0
AdvancedBelowZero(index, character) ==
    IF character.effective_stats.current_hp < 0 THEN index + 1 ELSE index

\* lines 150-153 without the tests: the index moves after every turn
AdvancedEveryTurn(index, character) == index + 1

\* lines 150-153: an index after the check of its character
Advanced(index, character) ==
    IF character.effective_stats.current_hp <= 0 THEN index + 1 ELSE index

\* lines 149-154 with line 154 skipped after a turn that defeated a character
RoundAfterTurnKeepsTurnOnDefeat ==
    /\ rpc = "in_turn"
    /\ tpc = "ret"
    /\ battle_log' = Append(battle_log, description)
    /\ opponent_index' = Advanced(opponent_index, OpponentCharacter)
    /\ your_index' = Advanced(your_index, YourCharacter)
    /\ is_your_turn' = IF opponent_index' # opponent_index \/ your_index' # your_index
                       THEN is_your_turn
                       ELSE ~is_your_turn
    /\ rpc' = "loop"
    /\ tpc' = "idle"
    /\ UNCHANGED <<match_vars, your_team, opponent_team, round_result, is_attack_special,
                   is_damage_missed, description, pre, rng_calls, calc_vars>>

\* lines 149-154: play_turn has returned
RoundAfterTurn ==
    /\ rpc = "in_turn"
    /\ tpc = "ret"
    /\ battle_log' = Append(battle_log, description)
    /\ opponent_index' = Advanced(opponent_index, OpponentCharacter)
    /\ your_index' = Advanced(your_index, YourCharacter)
    /\ is_your_turn' = ~is_your_turn
    /\ rpc' = "loop"
    /\ tpc' = "idle"
    /\ UNCHANGED <<match_vars, your_team, opponent_team, round_result, is_attack_special,
                   is_damage_missed, description, pre, rng_calls, calc_vars>>

\* line 155 with the opponent's exhaustion deciding the round
YourWinByOpponent(your_i, opponent_i) == opponent_i >= Len(opponent_team)

\* line 155 with  <=
YourWinAtLength(your_i, opponent_i) == your_i <= Len(your_team)

\* line 155
YourWin(your_i, opponent_i) == your_i < Len(your_team)

\* lines 155-157: the loop is over
RoundReturn ==
    /\ rpc = "loop"
    /\ ~InBounds(your_index, opponent_index)
    /\ round_result' = <<YourWin(your_index, opponent_index), battle_log,
                         <<your_team, opponent_team>>>>
    /\ rpc' = "done"
    /\ UNCHANGED <<match_vars, your_team, opponent_team, your_index, opponent_index,
                   is_your_turn, battle_log, turn_vars, rng_calls, calc_vars>>

----------------------------------------------------------------------------
\* play_match (backend.py 161-207).

\* lines 177-179
MatchRoll ==
    /\ mpc = "roll"
    /\ \E outcome \in Rng(50 * PERCENT) : is_your_turn_first' = outcome
    /\ rng_calls' = rng_calls + 1
    /\ your_wins' = 0
    /\ opponent_wins' = 0
    /\ play_by_play_description' = <<>>
    /\ round' = 1
    /\ mpc' = "loop"
    /\ UNCHANGED <<match_result, round_vars, turn_vars, calc_vars>>

\* lines 180-187: the next round is announced and play_round is called
MatchStartRound ==
    /\ mpc = "loop"
    /\ play_by_play_description' =
           Append(play_by_play_description, [kind |-> "round", round |-> round])
    /\ rpc' = "load"
    /\ mpc' = "in_round"
    /\ UNCHANGED <<is_your_turn_first, your_wins, opponent_wins, round, match_result,
                   your_team, opponent_team, your_index, opponent_index, is_your_turn,
                   battle_log, round_result, turn_vars, rng_calls, calc_vars>>

\* line 182: the assignment  is_round_your_win, round_description = play_round(...)
\* takes the value apart into its two targets, which a value of another
\* length does not allow
Unpacks(value) == Len(value) = 2

\* lines 191-196: the tally of a round
Tally(is_round_your_win) ==
    [your_wins |-> IF is_round_your_win THEN your_wins + 1 ELSE your_wins,
     opponent_wins |-> IF is_round_your_win THEN opponent_wins ELSE opponent_wins + 1,
     round_outcome |-> IF is_round_your_win THEN "WIN" ELSE "LOSS"]

\* line 201
IsMatchOver(yours, theirs) == yours = N_WINS \/ theirs = N_WINS

\* lines 182-207: play_round has returned
MatchAfterRound ==
    /\ mpc = "in_round"
    /\ rpc = "done"
    /\ rpc' = "idle"
    /\ IF ~Unpacks(round_result)
       THEN /\ mpc' = "raised"
            /\ UNCHANGED <<is_your_turn_first, your_wins, opponent_wins, round,
                           play_by_play_description, match_result>>
       ELSE LET tally == Tally(round_result[1])
                outcome_line == [kind |-> "outcome", round |-> round,
                                 outcome |-> tally.round_outcome,
                                 score |-> <<tally.your_wins, tally.opponent_wins>>]
                over_line == [kind |-> "over", round |-> round,
                              outcome |-> tally.round_outcome,
                              score |-> <<tally.your_wins, tally.opponent_wins>>]
                described == play_by_play_description \o round_result[2]
                                 \o <<outcome_line>>
                over == IsMatchOver(tally.your_wins, tally.opponent_wins)
            IN  /\ your_wins' = tally.your_wins
                /\ opponent_wins' = tally.opponent_wins
                /\ is_your_turn_first' = ~is_your_turn_first
                /\ play_by_play_description' =
                       IF over THEN Append(described, over_line) ELSE described
                /\ IF over \/ round = N_ROUNDS
                   THEN /\ mpc' = "done"
                        /\ round' = round
                        /\ match_result' =
                               <<tally.your_wins > tally.opponent_wins,
                                 play_by_play_description'>>
                   ELSE /\ mpc' = "loop"
                        /\ round' = round + 1
                        /\ UNCHANGED match_result
    /\ UNCHANGED <<your_team, opponent_team, your_index, opponent_index, is_your_turn,
                   battle_log, round_result, turn_vars, rng_calls, calc_vars>>

----------------------------------------------------------------------------
\* The program: backend.py run as a script calls play_match once.

Idle ==
    /\ is_your_turn_first = FALSE
    /\ your_wins = 0
    /\ opponent_wins = 0
    /\ round = 0
    /\ play_by_play_description = <<>>
    /\ match_result = None
    /\ your_index = 0
    /\ opponent_index = 0
    /\ battle_log = <<>>
    /\ round_result = <<>>
    /\ is_attack_special = FALSE
    /\ is_damage_missed = FALSE
    /\ description = None
    /\ rng_calls = 0

\* calculate_damage_taken is not called directly
NoCalls ==
    /\ dmg_in = None
    /\ stats_in = None
    /\ dmg_out = <<>>
    /\ miss_out = <<>>

Init ==
    /\ Idle
    /\ NoCalls
    /\ mpc = "roll"
    /\ rpc = "idle"
    /\ tpc = "idle"
    /\ your_team = <<>>
    /\ opponent_team = <<>>
    /\ is_your_turn = FALSE
    /\ pre = None

Next ==
    \/ MatchRoll
    \/ MatchStartRound
    \/ RoundLoad
    \/ RoundCallTurn
    \/ TurnCheck
    \/ TurnSpecial
    \/ TurnSelf
    \/ TurnMiss
    \/ TurnResolve
    \/ RoundAfterTurn
    \/ RoundReturn
    \/ MatchAfterRound

Spec == Init /\ [][Next]_vars

----------------------------------------------------------------------------
\* play_turn called directly, on any two characters: alive or not, fresh or
\* with counters that already run.

\* a character in the middle of a round
Veteran(character) ==
    [character EXCEPT !.damage_stats =
        [damage_dealt |-> 30, damage_taken |-> 20, damage_mitigated |-> 4 * PERCENT,
         kills |-> 1]]

WithHp(character, hp) == [character EXCEPT !.effective_stats.current_hp = hp]

TurnArguments ==
    { WithHp(c, hp) :
          c \in {Glass, Tank, Recoil, Veteran(Tank), Veteran(Recoil)},
          hp \in {30 * PERCENT, 15 * PERCENT, 10 * PERCENT, 0, -5 * PERCENT} }

InitTurn ==
    /\ Idle
    /\ NoCalls
    /\ mpc = "idle"
    /\ rpc = "idle"
    /\ tpc = "check"
    /\ \E yours \in TurnArguments, theirs \in TurnArguments :
           /\ your_team = <<yours>>
           /\ opponent_team = <<theirs>>
           /\ pre = [your |-> yours, opponent |-> theirs, rng_calls |-> 0]
    /\ is_your_turn \in BOOLEAN

NextTurn == TurnCheck \/ TurnSpecial \/ TurnSelf \/ TurnMiss \/ TurnResolve

SpecTurn == InitTurn /\ [][NextTurn]_vars

----------------------------------------------------------------------------
\* calculate_damage_taken called directly, MaxCalls times on one input.

Amounts == (0 .. MaxDamage) \cup {10, 20}
Mitigations == {0, 20, 25, 50, 80, 100, 150}

InitDamage ==
    /\ Idle
    /\ mpc = "idle"
    /\ rpc = "idle"
    /\ tpc = "idle"
    /\ your_team = <<>>
    /\ opponent_team = <<>>
    /\ is_your_turn = FALSE
    /\ pre = None
    /\ dmg_in \in {Damage(physical, magic) : physical \in Amounts, magic \in Amounts}
    /\ stats_in \in {Stats(15 * PERCENT, armor, mr, 0) :
                         armor \in Mitigations, mr \in Mitigations} \cup {None}
    /\ dmg_out = <<>>
    /\ miss_out = <<>>

CallDamageTaken ==
    /\ Len(dmg_out) < MaxCalls
    /\ dmg_out' = Append(dmg_out, calculate_damage_taken(dmg_in, stats_in))
    /\ UNCHANGED <<match_vars, round_vars, turn_vars, rng_calls, dmg_in, stats_in,
                   miss_out>>

\* calculate_miss_chance on the same input; absent stats have no armor to read
CallMissChance ==
    /\ Len(miss_out) < MaxCalls
    /\ miss_out' = Append(miss_out,
                          IF stats_in = None
                          THEN [raised |-> TRUE]
                          ELSE [raised |-> FALSE,
                                value |-> calculate_miss_chance(dmg_in, stats_in)])
    /\ UNCHANGED <<match_vars, round_vars, turn_vars, rng_calls, dmg_in, stats_in,
                   dmg_out>>

NextDamage == CallDamageTaken \/ CallMissChance

SpecDamage == InitDamage /\ [][NextDamage]_vars

----------------------------------------------------------------------------
\* Properties of play_round, under Spec.

\* C1: play_round calls play_turn only with two characters whose current_hp
\* is > 0, so the precondition error of play_turn is never raised in a round.
C1_TurnOnlyBetweenAlive ==
    rpc = "in_turn" =>
        /\ tpc = "check" =>
               /\ YourCharacter.effective_stats.current_hp > 0
               /\ OpponentCharacter.effective_stats.current_hp > 0
        /\ tpc # "raised"

\* play_turn is called after a character went down with exactly 0 hp
C1_Witness ==
    /\ rpc = "in_turn"
    /\ tpc = "check"
    /\ \E i \in 1 .. your_index : your_team[i].effective_stats.current_hp = 0

RoundOver == rpc = "done"

\* the turn before the return has exhausted both teams
DoubleExhaustion ==
    /\ RoundOver
    /\ Len(battle_log) > 0
    /\ your_index = Len(your_team)
    /\ opponent_index = Len(opponent_team)

\* C2 as stated: a turn that exhausts both teams makes play_round return the
\* win flag true.
C2_DoubleExhaustionWins == DoubleExhaustion => round_result[1] = TRUE

\* C2, amended: a turn that exhausts both teams makes play_round return the
\* win flag false.
C2_DoubleExhaustionLoses == DoubleExhaustion => round_result[1] = FALSE

C2_Witness ==
    /\ DoubleExhaustion
    /\ your_team[your_index].effective_stats.current_hp <= 0
    /\ opponent_team[opponent_index].effective_stats.current_hp <= 0

\* C3: when play_round returns, one index at least equals the length of its
\* team, and the win flag is true exactly when your_index is below the length
\* of your team.
C3_ReturnOfRound ==
    RoundOver =>
        /\ your_index = Len(your_team) \/ opponent_index = Len(opponent_team)
        /\ round_result[1] <=> (your_index < Len(your_team))

\* a round won after more than one turn, with a character lost on the way
C3_Witness ==
    /\ RoundOver
    /\ round_result[1]
    /\ your_index > 0
    /\ opponent_index = Len(opponent_team)

----------------------------------------------------------------------------
\* Properties of play_match, under Spec.

MatchEnded == mpc \in {"done", "raised"}

\* C4: play_match plays at most N_ROUNDS rounds, starts no round once a side
\* has N_WINS wins, ends a match won 3-0 after round 3 with the outcome true,
\* and always returns whether your_wins > opponent_wins.
C4_MatchReturnsOutcome ==
    /\ round <= N_ROUNDS
    /\ mpc = "in_round" => your_wins < N_WINS /\ opponent_wins < N_WINS
    /\ MatchEnded =>
           /\ mpc = "done"
           /\ match_result[1] <=> (your_wins > opponent_wins)
           /\ (your_wins = N_WINS /\ opponent_wins = 0) => round = N_WINS

\* C5: the round that play_match has resolved is followed by the negation of
\* the first-turn flag, whatever the round's outcome, so that round r + 1 is
\* played with the flag of round r negated.
C5_FlagAlternates ==
    [][(mpc = "in_round" /\ mpc' # "in_round")
           => is_your_turn_first' = ~is_your_turn_first]_vars

----------------------------------------------------------------------------
\* Properties of play_turn, under SpecTurn.

TurnReturned == tpc = "ret"

\* the two characters as play_turn was entered, and as they are now
AttackerBefore == IF is_your_turn THEN pre.your ELSE pre.opponent
DefenderBefore == IF is_your_turn THEN pre.opponent ELSE pre.your
AttackerAfter == attacking_char
DefenderAfter == defending_char

\* the damage of the attack the turn has chosen
DamageOfTurn == ChosenAttack(AttackerBefore, is_attack_special).damage

\* the health delta and the mitigated amount of 4.2, in hundredths
HealthDelta(damage, stats) ==
    0 - ((damage.physical * PERCENT - damage.physical * stats.armor)
         + (damage.magic * PERCENT - damage.magic * stats.magic_resistance))
MitigatedAmount(damage, stats) ==
    damage.physical * stats.armor + damage.magic * stats.magic_resistance

\* C6: a hit adds the health delta to the defender's current_hp without
\* clamping at zero; the attacker's kills grow by one and the narration says
\* "fainted" exactly when the resulting current_hp is <= 0.  20 physical
\* damage on armor 0, magic resistance 0 and 15 hp leaves -5 hp, "fainted"
\* and one kill.
C6_HitAppliesDelta ==
    (TurnReturned /\ ~is_damage_missed) =>
        LET hp_before == DefenderBefore.effective_stats.current_hp
            hp_after == DefenderAfter.effective_stats.current_hp
            fainted == hp_after <= 0
        IN  /\ hp_after = hp_before
                   + HealthDelta(DamageOfTurn, DefenderBefore.effective_stats)
            /\ AttackerAfter.damage_stats.kills =
                   AttackerBefore.damage_stats.kills + (IF fainted THEN 1 ELSE 0)
            /\ description.kind = "hit"
            /\ description.fainted <=> fainted
            /\ ( /\ DamageOfTurn = Damage(20, 0)
                 /\ DefenderBefore.effective_stats = Stats(15 * PERCENT, 0, 0, 0)
                 /\ AttackerBefore.damage_stats.kills = 0 )
               => /\ hp_after = -5 * PERCENT
                  /\ description.fainted
                  /\ AttackerAfter.damage_stats.kills = 1

\* the scenario of 20 physical damage on a defender with 15 hp
C6_Witness ==
    /\ TurnReturned
    /\ ~is_damage_missed
    /\ DamageOfTurn = Damage(20, 0)
    /\ DefenderBefore.effective_stats = Stats(15 * PERCENT, 0, 0, 0)
    /\ DefenderAfter.effective_stats.current_hp = -5 * PERCENT
    /\ description.fainted
    /\ AttackerAfter.damage_stats.kills = 1

\* C7: a miss leaves the defender's effective_stats and damage_stats, and
\* the attacker's damage_dealt and kills, as they were before the turn.
C7_MissLeavesDefender ==
    (TurnReturned /\ is_damage_missed) =>
        /\ DefenderAfter.effective_stats = DefenderBefore.effective_stats
        /\ DefenderAfter.damage_stats = DefenderBefore.damage_stats
        /\ AttackerAfter.damage_stats.damage_dealt = AttackerBefore.damage_stats.damage_dealt
        /\ AttackerAfter.damage_stats.kills = AttackerBefore.damage_stats.kills
        /\ description.kind = "missed"

\* a miss of an attack that has changed the attacker's own stats
C7_Witness ==
    /\ TurnReturned
    /\ is_damage_missed
    /\ AttackerAfter.effective_stats # AttackerBefore.effective_stats
    /\ DefenderBefore.damage_stats.damage_taken > 0

\* play_turn was entered with a participant whose current_hp is <= 0
EnteredWithDead ==
    /\ pre # None
    /\ \/ pre.your.effective_stats.current_hp <= 0
       \/ pre.opponent.effective_stats.current_hp <= 0

\* C8: play_turn entered with a participant whose current_hp is <= 0 fails
\* before anything else: no roll is consumed and neither character changes.
C8_DeadParticipantFails ==
    EnteredWithDead =>
        /\ tpc \in {"check", "raised"}
        /\ rng_calls = pre.rng_calls
        /\ YourCharacter = pre.your
        /\ OpponentCharacter = pre.opponent

\* the error is raised for an opponent that is down while yours is alive
C8_Witness ==
    /\ tpc = "raised"
    /\ pre.your.effective_stats.current_hp > 0
    /\ pre.opponent.effective_stats.current_hp <= 0

\* C9: a hit adds the raw physical + magic of the attack to the attacker's
\* damage_dealt and to the defender's damage_taken, and the mitigated amount
\* to the defender's damage_mitigated; the defender's damage_dealt and the
\* attacker's damage_taken and damage_mitigated stay as they were.
C9_HitCountsRawDamage ==
    (TurnReturned /\ ~is_damage_missed) =>
        LET raw == DamageOfTurn.physical + DamageOfTurn.magic
        IN  /\ AttackerAfter.damage_stats.damage_dealt =
                   AttackerBefore.damage_stats.damage_dealt + raw
            /\ DefenderAfter.damage_stats.damage_taken =
                   DefenderBefore.damage_stats.damage_taken + raw
            /\ DefenderAfter.damage_stats.damage_mitigated =
                   DefenderBefore.damage_stats.damage_mitigated
                       + MitigatedAmount(DamageOfTurn, DefenderBefore.effective_stats)
            /\ DefenderAfter.damage_stats.damage_dealt =
                   DefenderBefore.damage_stats.damage_dealt
            /\ AttackerAfter.damage_stats.damage_taken =
                   AttackerBefore.damage_stats.damage_taken
            /\ AttackerAfter.damage_stats.damage_mitigated =
                   AttackerBefore.damage_stats.damage_mitigated

\* a hit of which a part is mitigated, on counters that already run
C9_Witness ==
    /\ TurnReturned
    /\ ~is_damage_missed
    /\ MitigatedAmount(DamageOfTurn, DefenderBefore.effective_stats) > 0
    /\ DefenderBefore.damage_stats.damage_taken > 0
    /\ AttackerBefore.damage_stats.damage_dealt > 0
    /\ DefenderAfter.damage_stats.damage_taken > DefenderBefore.damage_stats.damage_taken

----------------------------------------------------------------------------
\* Properties of calculate_damage_taken, under SpecDamage.

\* C10: for every damage and every defender stats that are not absent,
\* calculate_damage_taken returns the health delta
\* -((physical - physical*armor/100) + (magic - magic*magic_resistance/100))
\* and the mitigated amount physical*armor/100 + magic*magic_resistance/100;
\* a second call on the same inputs returns the same pair, and no call
\* changes an input.
C10_DamageTaken ==
    /\ [](stats_in # None =>
              /\ \A i \in 1 .. Len(dmg_out) :
                     /\ ~dmg_out[i].raised
                     /\ dmg_out[i].value = <<HealthDelta(dmg_in, stats_in),
                                             MitigatedAmount(dmg_in, stats_in)>>
              /\ Len(dmg_out) >= 2 => dmg_out[2] = dmg_out[1])
    /\ [][dmg_in' = dmg_in /\ stats_in' = stats_in]_vars

\* two calls on a damage with both parts and a defender that mitigates both
C10_Witness ==
    /\ Len(dmg_out) >= 2
    /\ dmg_in.physical > 0
    /\ dmg_in.magic > 0
    /\ stats_in # None
    /\ stats_in.armor = 25
    /\ stats_in.magic_resistance = 80
    /\ dmg_out[2].value[1] < 0

\* the damage is not zero, and calculate_damage_taken has been called on it
NonzeroDamageTaken(i) ==
    /\ i \in 1 .. Len(dmg_out)
    /\ stats_in # None
    /\ dmg_in.physical >= 0
    /\ dmg_in.magic >= 0
    /\ dmg_in.physical + dmg_in.magic > 0

\* C11 as stated: for every damage that is not zero and every defender stats
\* the function accepts, the health delta is <= 0.
C11_DeltaNeverPositive ==
    \A i \in 1 .. Len(dmg_out) : NonzeroDamageTaken(i) => dmg_out[i].value[1] <= 0

\* C11, amended: for every damage that is not zero and every defender stats
\* with armor <= 100 and magic_resistance <= 100, the health delta is <= 0.
C11_DeltaNotPositiveUpToFullMitigation ==
    \A i \in 1 .. Len(dmg_out) :
        (NonzeroDamageTaken(i) /\ stats_in.armor <= 100 /\ stats_in.magic_resistance <= 100)
            => dmg_out[i].value[1] <= 0

\* a damage with both parts, of which one is mitigated in full
C11_Witness ==
    /\ NonzeroDamageTaken(1)
    /\ dmg_in.physical > 0
    /\ dmg_in.magic > 0
    /\ stats_in.armor = 100
    /\ stats_in.magic_resistance = 50
    /\ dmg_out[1].value[1] < 0

\* C12: calculate_miss_chance returns magic_resistance / 10 exactly when
\* magic > physical and armor / 10 otherwise; physical = magic = 10 with
\* armor 20 and magic_resistance 80 gives 2, not 8.
C12_MissChance ==
    \A i \in 1 .. Len(miss_out) :
        stats_in # None =>
            /\ ~miss_out[i].raised
            /\ dmg_in.magic > dmg_in.physical =>
                   miss_out[i].value * MISS_DIVISOR = stats_in.magic_resistance * PERCENT
            /\ dmg_in.magic <= dmg_in.physical =>
                   miss_out[i].value * MISS_DIVISOR = stats_in.armor * PERCENT
            /\ ( /\ dmg_in = Damage(10, 10)
                 /\ stats_in.armor = 20
                 /\ stats_in.magic_resistance = 80 )
               => miss_out[i].value = 2 * PERCENT

\* the tie of 10 physical and 10 magic on armor 20, magic resistance 80
C12_Witness ==
    /\ Len(miss_out) >= 1
    /\ dmg_in = Damage(10, 10)
    /\ stats_in # None
    /\ stats_in.armor = 20
    /\ stats_in.magic_resistance = 80
    /\ miss_out[1].value = 2 * PERCENT

----------------------------------------------------------------------------
\* Further properties of play_match and play_round, under Spec.

\* C13: play_match takes the value play_round returns apart into the win flag
\* and the turn log, so a resolved round never leaves play_match in an error:
\* the round is tallied and its outcome line is appended.
C13_RoundResultAccepted ==
    [][(mpc = "in_round" /\ rpc = "done") =>
           /\ mpc' \in {"loop", "done"}
           /\ your_wins' + opponent_wins' = your_wins + opponent_wins + 1
           /\ \E i \in 1 .. Len(play_by_play_description') :
                  /\ play_by_play_description'[i].kind = "outcome"
                  /\ play_by_play_description'[i].round = round]_vars

\* C14: when the miss is rolled and when the hit is applied, the attacking
\* and the defending character both have current_hp > 0, also after the
\* attack's updates to the attacker itself.
C14_AttackBetweenAlive ==
    (rpc = "in_turn" /\ tpc \in {"miss", "resolve"}) =>
        /\ attacking_char.effective_stats.current_hp > 0
        /\ defending_char.effective_stats.current_hp > 0

\* the side that acts first takes the odd turns of the round
ActsOnTurn(k) == IF k % 2 = 1 THEN is_your_turn_first ELSE ~is_your_turn_first

NamesOf(team) == {team[i].name : i \in 1 .. Len(team)}

\* C15: is_your_turn is negated after every turn, so the k-th turn of the
\* round is taken by the side that acts first when k is odd and by the other
\* side when k is even, whatever the turns before it did.
C15_SidesAlternate ==
    rpc \in {"loop", "in_turn"} =>
        /\ is_your_turn = ActsOnTurn(Len(battle_log) + 1)
        /\ \A k \in 1 .. Len(battle_log) :
               battle_log[k].attacker \in
                   NamesOf(IF ActsOnTurn(k) THEN your_team ELSE opponent_team)

\* the fourth turn or a later one, after a miss and after a character fainted
C15_Witness ==
    /\ rpc = "in_turn"
    /\ Len(battle_log) >= 3
    /\ \E k \in 1 .. Len(battle_log) : battle_log[k].kind = "missed"
    /\ \E k \in 1 .. Len(battle_log) : battle_log[k].fainted
    /\ your_index + opponent_index >= 1

----------------------------------------------------------------------------
\* Further properties of play_turn, under SpecTurn.

\* the attacker's stats with the updates of the chosen attack
AttackerStatsUpdated ==
    LET updates == ChosenAttack(AttackerBefore, is_attack_special).stat_updates_to_self
    IN  IF updates = None
        THEN AttackerBefore.effective_stats
        ELSE add_stat_changes(AttackerBefore.effective_stats, updates)

\* C16: the updates of the chosen attack are added to the attacker's stats
\* after the special-trigger roll and before the miss roll, on a hit and on a
\* miss alike; they change the attacker alone, so the miss roll and the hit
\* find the defender as it was before the turn.
C16_SelfUpdatesBeforeMiss ==
    /\ tpc \in {"check", "special"} =>
           /\ rng_calls = pre.rng_calls
           /\ attacking_char = AttackerBefore
           /\ defending_char = DefenderBefore
    /\ tpc = "self" =>
           /\ rng_calls = pre.rng_calls + 1
           /\ attacking_char = AttackerBefore
           /\ defending_char = DefenderBefore
    /\ tpc = "miss" =>
           /\ rng_calls = pre.rng_calls + 1
           /\ attacking_char.effective_stats = AttackerStatsUpdated
           /\ defending_char = DefenderBefore
    /\ tpc = "resolve" =>
           /\ rng_calls = pre.rng_calls + 2
           /\ attacking_char.effective_stats = AttackerStatsUpdated
           /\ defending_char = DefenderBefore
    /\ tpc = "ret" =>
           /\ attacking_char.effective_stats = AttackerStatsUpdated
           /\ ~is_damage_missed =>
                  defending_char.effective_stats.current_hp =
                      DefenderBefore.effective_stats.current_hp
                          + HealthDelta(DamageOfTurn, DefenderBefore.effective_stats)

\* the miss roll is about to be made for an attack that has raised its
\* attacker's armor
C16_Witness ==
    /\ tpc = "miss"
    /\ is_attack_special
    /\ attacking_char.effective_stats.armor > AttackerBefore.effective_stats.armor
    /\ rng_calls = pre.rng_calls + 1

----------------------------------------------------------------------------
\* Termination of play_round, under Spec.

\* the team as read_data delivered it
Loaded(team) ==
    CHOOSE t \in read_data :
        /\ Len(t) = Len(team)
        /\ \A i \in 1 .. Len(t) : t[i].name = team[i].name

AttacksOf(character) == {character.basic_attack, character.special_attack}

\* every attack of either team takes health from every character it can meet
EveryAttackTakesHealth ==
    \A i \in 1 .. Len(your_team), j \in 1 .. Len(opponent_team) :
        /\ \A a \in AttacksOf(your_team[i]) :
               HealthDelta(a.damage, opponent_team[j].effective_stats) < 0
        /\ \A a \in AttacksOf(opponent_team[j]) :
               HealthDelta(a.damage, your_team[i].effective_stats) < 0

\* no roll of the round has two outcomes: no attack can miss, every special
\* roll has one outcome, and no attack changes what the rolls depend on
RollsForced(team) ==
    \A i \in 1 .. Len(team) :
        /\ Cardinality(Rng(team[i].effective_stats.special_trigger_chance * PERCENT)) = 1
        /\ team[i].effective_stats.armor = 0
        /\ team[i].effective_stats.magic_resistance = 0
        /\ \A a \in AttacksOf(team[i]) :
               \/ a.stat_updates_to_self = None
               \/ /\ a.stat_updates_to_self.armor = 0
                  /\ a.stat_updates_to_self.magic_resistance = 0
                  /\ a.stat_updates_to_self.special_trigger_chance = 0

SameStats(team, other) ==
    \A i \in 1 .. Len(team) : team[i].effective_stats = other[i].effective_stats

\* the loop is where it began: the stats, the indices and the side to move
\* of the first turn, after one turn or more
BackAtStart ==
    /\ rpc = "loop"
    /\ Len(battle_log) > 0
    /\ InBounds(your_index, opponent_index)
    /\ your_index = 0
    /\ opponent_index = 0
    /\ is_your_turn = is_your_turn_first
    /\ SameStats(your_team, Loaded(your_team))
    /\ SameStats(opponent_team, Loaded(opponent_team))

\* C17: between two non-empty teams of alive characters whose attacks all
\* take health, the loop of play_round ends under a fair RNG.  A round whose
\* rolls each have one outcome runs the same way under every RNG, so it ends
\* only if the loop never comes back to the stats, indices and side to move
\* it began with.
C17_RoundEnds ==
    (EveryAttackTakesHealth /\ RollsForced(your_team) /\ RollsForced(opponent_team))
        => ~BackAtStart

----------------------------------------------------------------------------
\* Invariants of play_match and play_round, under Spec.

\* C18: after every completed round your_wins + opponent_wins is the number
\* of rounds played; play_match returns with exactly one side at N_WINS wins,
\* the other below, and the match-over line appended.
C18_NoTiedMatch ==
    /\ mpc = "loop" => your_wins + opponent_wins = round - 1
    /\ MatchEnded =>
           /\ mpc = "done"
           /\ your_wins + opponent_wins = round
           /\ \/ your_wins = N_WINS /\ opponent_wins < N_WINS
              \/ opponent_wins = N_WINS /\ your_wins < N_WINS
           /\ play_by_play_description[Len(play_by_play_description)].kind = "over"

InRound == rpc \in {"loop", "in_turn", "done"}

\* what C19 says of one team and its index in a state of the round
IndexInvariant(team, index) ==
    /\ 0 <= index
    /\ index <= Len(team)
    /\ \A i \in 1 .. Len(team) :
           /\ i < index + 1 => team[i].effective_stats.current_hp <= 0
           /\ i > index + 1 => team[i] = Loaded(team)[i]

\* C19: in the loop of play_round each index stays between 0 and the length
\* of its team, never decreases and grows by at most one in a step; the
\* characters before an index have current_hp <= 0, and the characters after
\* it are as they were loaded, with all counters zero.
C19_IndexInvariant ==
    /\ [](InRound => /\ IndexInvariant(your_team, your_index)
                     /\ IndexInvariant(opponent_team, opponent_index))
    /\ [][InRound => /\ your_index' \in {your_index, your_index + 1}
                     /\ opponent_index' \in {opponent_index, opponent_index + 1}]_vars

\* one team has lost a character, the other has one waiting behind a front
\* character that has been hit
C19_Witness ==
    /\ rpc = "loop"
    /\ your_index >= 1
    /\ Len(opponent_team) >= opponent_index + 2
    /\ OpponentCharacter.damage_stats.damage_taken > 0

RECURSIVE TotalOf(_, _)
\* a counter of damage_stats summed over a team
TotalOf(team, counter) ==
    IF team = <<>>
    THEN 0
    ELSE Head(team).damage_stats[counter] + TotalOf(Tail(team), counter)

\* C20: at every point of a round the damage_dealt of your team sums to the
\* damage_taken of the opponent team, and the damage_dealt of the opponent
\* team to the damage_taken of yours.
C20_DamageConserved ==
    /\ TotalOf(your_team, "damage_dealt") = TotalOf(opponent_team, "damage_taken")
    /\ TotalOf(opponent_team, "damage_dealt") = TotalOf(your_team, "damage_taken")

\* both sides have dealt damage, part of it mitigated, and a second
\* character has joined the fight
C20_Witness ==
    /\ InRound
    /\ TotalOf(your_team, "damage_dealt") > 0
    /\ TotalOf(opponent_team, "damage_dealt") > 0
    /\ TotalOf(your_team, "damage_mitigated") > 0
    /\ your_index + opponent_index >= 1
    /\ InBounds(your_index, opponent_index)

====
